---- MODULE Spec2Model ----
(***************************************************************************)
(* A model of jellyfish-core: canonical byte orders, signed transactions,  *)
(* block headers, merkle commitments, the Proof-of-Work predicate and the  *)
(* block verification pipeline.                                            *)
(*                                                                         *)
(* Bytes are integers 0..255 and byte strings are sequences of them.  The  *)
(* Rust marker types Yet / Verified are carried as the fields vt / vb / v  *)
(* of the values they tag.  SHA-256 and Ed25519 are library calls; they    *)
(* are modelled as deterministic functions of their input bytes (see       *)
(* calculate_digest, SecretAccount_sign, Account_verify).                  *)
(***************************************************************************)
EXTENDS Integers, Sequences, FiniteSets, Bags, TLC

(***************************************************************************)
(* Bounds of the model                                                     *)
(***************************************************************************)
\* secret accounts (key pairs) are numbered 1..NumKeys
NumKeys == 2
\* nonces tried by the Proof-of-Work search are 0..MaxNonce
MaxNonce == 2
\* a block holds at most MaxTxs transactions
MaxTxs == 2
\* the longest message the model hashes
MaxMsgLen == 256

\* rewrites of one serialized transaction in flight
MaxTampers == 2

(***************************************************************************)
(* Program constants                                                       *)
(***************************************************************************)
\* [u8; 32]
DigestLen == 32
\* ed25519 signature length
SignLen == 64
\* ed25519 public key length
KeyLen == 32

\* Option<T>: None is the empty sequence, Some(x) the sequence holding x
None == <<>>

Some(x) == <<x>>

IsSome(o) == Len(o) = 1

Unwrap(o) == o[1]

\* Result<T, E>: Ok(value) carries Some(value), Err(kind) the error kind
Ok(value) == [ok |-> TRUE, value |-> Some(value), err |-> "-"]

Err(kind) == [ok |-> FALSE, value |-> None, err |-> kind]

(***************************************************************************)
(* Integer byte orders                                                     *)
(***************************************************************************)
Pow256(i) == IF i = 0 THEN 1 ELSE IF i = 1 THEN 256 ELSE IF i = 2 THEN 65536 ELSE 16777216

\* the i-th least significant byte (i in 0..7) of the 64-bit two's complement
\* representation of x; x is within the 32-bit range of the integers of the model
ByteOf(x, i) == IF i <= 3 THEN (x \div Pow256(i)) % 256 ELSE IF x < 0 THEN 255 ELSE 0

to_le_bytes(x) ==
    <<ByteOf(x, 0), ByteOf(x, 1), ByteOf(x, 2), ByteOf(x, 3),
      ByteOf(x, 4), ByteOf(x, 5), ByteOf(x, 6), ByteOf(x, 7)>>

to_be_bytes(x) ==
    <<ByteOf(x, 7), ByteOf(x, 6), ByteOf(x, 5), ByteOf(x, 4),
      ByteOf(x, 3), ByteOf(x, 2), ByteOf(x, 1), ByteOf(x, 0)>>

\* the sequence f as an explicit tuple of its elements (a Vec collected from
\* an iterator)
Collect(f) == f \o <<>>

(***************************************************************************)
(* Digest: SHA-256 as a deterministic function from byte strings to        *)
(* DigestLen bytes.  Two position-weighted checksums of the message give   *)
(* the first four bytes, which are then repeated.  The function is         *)
(* collision-free on the messages the model hashes.                        *)
(***************************************************************************)
RECURSIVE PowMod(_, _, _)
PowMod(base, e, modulus) ==
    IF e = 0 THEN 1
    ELSE LET half == PowMod(base, e \div 2, modulus)
             sq == (half * half) % modulus
         IN  IF e % 2 = 0 THEN sq ELSE (sq * base) % modulus

HashWeights1 == Collect([i \in 1..MaxMsgLen |-> PowMod(31, i, 16381)])

HashWeights2 == Collect([i \in 1..MaxMsgLen |-> PowMod(251, i, 16369)])

\* the sum of the elements of a sequence of positive numbers
Sum(f) == BagCardinality(f)

HashWord(msg) ==
    LET h1 == Sum([i \in 1..Len(msg) |-> (msg[i] + 1) * HashWeights1[i]]) % 16381
        h2 == Sum([i \in 1..Len(msg) |-> (msg[i] + 1) * HashWeights2[i]]) % 16369
    IN  <<h1 % 256, h1 \div 256, h2 % 256, h2 \div 256>>

calculate_digest(msg) ==
    LET w == HashWord(msg) IN Collect([i \in 1..DigestLen |-> w[((i - 1) % 4) + 1]])

(***************************************************************************)
(* Difficulty                                                              *)
(***************************************************************************)
RECURSIVE CountBitLoop(_, _, _)
CountBitLoop(x, flag, count) ==
    IF flag > 0 /\ (x \div flag) % 2 = 0
    THEN CountBitLoop(x, flag \div 2, count + 1)
    ELSE count

\* number of zero bits of the byte x before its first set bit
count_first_0_bit(x) == CountBitLoop(x, 128, 0)

RECURSIVE CountBytesLoop(_, _, _)
CountBytesLoop(bytes, i, count) ==
    IF i > Len(bytes) THEN count
    ELSE LET c == count_first_0_bit(bytes[i])
         IN  IF c = 8 THEN CountBytesLoop(bytes, i + 1, count + 8) ELSE count + c

\* a count that goes on after the first set bit: the zero bits at the head
\* of every byte
RECURSIVE CountBytesNoBreak(_, _, _)
CountBytesNoBreak(bytes, i, count) ==
    IF i > Len(bytes) THEN count
    ELSE CountBytesNoBreak(bytes, i + 1, count + count_first_0_bit(bytes[i]))

count_first_0_bits_no_break(bytes) == CountBytesNoBreak(bytes, 1, 0)

count_first_0_bits(bytes) == CountBytesLoop(bytes, 1, 0)

\* Difficulty(d).verify_digest(digest)
verify_digest(d, digest) == count_first_0_bits(digest) >= d

Difficulty_append_bytes(d) == to_le_bytes(d)

\* u64::MAX, in the scale of the model: a threshold no digest of DigestLen
\* bytes reaches (the tests' Difficulty::new(u64::MAX))
HugeDifficulty == 257

\* crate::constant::MIN_DIFFICULTY, the floor of ease()
MIN_DIFFICULTY == 1

\* what a u64 addition or subtraction gives: the value when it is in range;
\* out of range the build decides, a panic with overflow checks (debug),
\* the wrapped value without them (release)
U64Arith(x) ==
    IF x \in 0..HugeDifficulty THEN {[panic |-> FALSE, value |-> x]}
    ELSE {[panic |-> TRUE, value |-> 0],
          [panic |-> FALSE, value |-> x % (HugeDifficulty + 1)]}

Max(a, b) == IF a >= b THEN a ELSE b

\* Difficulty::raise: the outcomes the builds can produce
Difficulty_raise(d) == U64Arith(d + 1)

\* Difficulty::ease: the outcomes the builds can produce
Difficulty_ease(d) ==
    {[r EXCEPT !.value = IF r.panic THEN 0 ELSE Max(r.value, MIN_DIFFICULTY)] :
        r \in U64Arith(d - 1)}

Timestamp_append_bytes(t) == to_le_bytes(t)

(***************************************************************************)
(* Accounts and signatures.  A SecretAccount is the number k of its key    *)
(* pair.  Ed25519 is deterministic: the signature is a function of the key *)
(* and the message, and a signature verifies under a public key exactly    *)
(* when the holder of that key produced it for that message.               *)
(***************************************************************************)
Keys == 1..NumKeys

PublicKey(k) == calculate_digest(<<k, 112>>)

\* SecretAccount::to_public
to_public(k) == [name |-> PublicKey(k)]

Account_append_bytes(account) == account.name

\* a well-formed signature has the three top bits of its last byte clear
SignatureWellFormed(bytes) == Len(bytes) = SignLen /\ bytes[SignLen] < 32

\* SecretAccount::sign
SecretAccount_sign(k, msg) ==
    LET r == calculate_digest(<<k>> \o msg)
        s == calculate_digest(msg \o <<k>>)
    IN  Collect([i \in 1..SignLen |->
            IF i <= DigestLen THEN r[i]
            ELSE IF i = SignLen THEN s[i - DigestLen] % 32
            ELSE s[i - DigestLen]])

\* Account::verify: TRUE for Ok(()), FALSE for Err(SignatureError)
Account_verify(account, msg, sign) ==
    \E k \in Keys : PublicKey(k) = account.name /\ SecretAccount_sign(k, msg) = sign

Signature_append_bytes(sign) == sign

(***************************************************************************)
(* JellyfishTransactionContent                                             *)
(***************************************************************************)
Method_append_bytes(method) ==
    <<CASE method = "Insert" -> 1 [] method = "Modify" -> 2 [] method = "Remove" -> 4>>

TransactionIdentifier_append_bytes(target) ==
    to_le_bytes(target.height) \o Signature_append_bytes(target.sign)

\* record: Option<String>, a string being its UTF-8 bytes;
\* target: Option<TransactionIdentifier>
Content_append_bytes(content) ==
    Method_append_bytes(content.method)
    \o (IF IsSome(content.record) THEN Unwrap(content.record) ELSE <<>>)
    \o (IF IsSome(content.target)
        THEN TransactionIdentifier_append_bytes(Unwrap(content.target))
        ELSE <<>>)

Content_insert(record) == [method |-> "Insert", record |-> Some(record), target |-> None]

Content_modify(record, target) ==
    [method |-> "Modify", record |-> Some(record), target |-> Some(target)]

Content_remove(target) == [method |-> "Remove", record |-> None, target |-> Some(target)]

(***************************************************************************)
(* Transaction                                                             *)
(***************************************************************************)
\* a builder that puts the appended bytes in front of its buffer
ByteOrderBuilder_prepend(buf, bytes) == bytes \o buf

\* ByteOrderBuilder::append: src.append_bytes(&mut self.buf)
ByteOrderBuilder_append(buf, bytes) == buf \o bytes

build_signature_source(account, timestamp, content) ==
    ByteOrderBuilder_append(
        ByteOrderBuilder_append(
            ByteOrderBuilder_append(<<>>, Account_append_bytes(account)),
            Timestamp_append_bytes(timestamp)),
        Content_append_bytes(content))

Transaction_create(k, timestamp, content) ==
    LET account == to_public(k)
        signature_source == build_signature_source(account, timestamp, content)
    IN  [account |-> account, timestamp |-> timestamp, content |-> content,
         sign |-> SecretAccount_sign(k, signature_source), v |-> "Verified"]

\* Transaction::verify of a Yet transaction: Ok(transaction) or Err(Signature)
Transaction_verify(tx) ==
    LET signature_source == build_signature_source(tx.account, tx.timestamp, tx.content)
    IN  IF Account_verify(tx.account, signature_source, tx.sign)
        THEN Ok([tx EXCEPT !.v = "Verified"])
        ELSE Err("Signature")

(***************************************************************************)
(* serde / JSON.  A JSON object is a record of its keys; a key that the    *)
(* serializer may leave out holds <<>> when absent and <<value>> when      *)
(* present.  A hex string is the sequence of its characters: a hexadecimal *)
(* digit is its value 0..15, any other character is NotHexChar.            *)
(***************************************************************************)
NotHexChar == 16

\* an encoder that writes the low digit of each byte first
hex_encode_low_first(bytes) ==
    Collect([i \in 1..(2 * Len(bytes)) |->
        IF i % 2 = 1 THEN bytes[(i + 1) \div 2] % 16 ELSE bytes[i \div 2] \div 16])

\* hex::encode: two digits per byte, the high one first
hex_encode(bytes) ==
    Collect([i \in 1..(2 * Len(bytes)) |->
        IF i % 2 = 1 THEN bytes[(i + 1) \div 2] \div 16 ELSE bytes[i \div 2] % 16])

\* hex::decode: None for an odd length or a character that is no hex digit
hex_decode(hex) ==
    IF Len(hex) % 2 = 1 \/ \E i \in 1..Len(hex) : hex[i] \notin 0..15 THEN None
    ELSE Some(Collect([i \in 1..(Len(hex) \div 2) |-> hex[2 * i - 1] * 16 + hex[2 * i]]))

serialize_name(name) == hex_encode(name)

\* deserialize_name: PublicKey::from_bytes wants KeyLen bytes
deserialize_name(hex) ==
    LET bytes == hex_decode(hex)
    IN  IF IsSome(bytes) /\ Len(Unwrap(bytes)) = KeyLen THEN bytes ELSE None

serialize_signature(sign) == hex_encode(sign)

\* deserialize_signature: Signature::from_bytes wants a well-formed signature
deserialize_signature(hex) ==
    LET bytes == hex_decode(hex)
    IN  IF IsSome(bytes) /\ SignatureWellFormed(Unwrap(bytes)) THEN bytes ELSE None

\* a parser of digests that keeps the first DigestLen bytes of a longer string
Digest_deserialize_truncating(string) ==
    LET bytes == hex_decode(string)
    IN  IF IsSome(bytes) /\ Len(Unwrap(bytes)) >= DigestLen
        THEN Some(SubSeq(Unwrap(bytes), 1, DigestLen))
        ELSE None

\* #[serde(with = "hex")] on a [u8; 32]: hex::FromHex for the array refuses an
\* odd length, a length other than 2 * 32 and a character that is no hex digit
Digest_deserialize(string) ==
    LET bytes == hex_decode(string)
    IN  IF IsSome(bytes) /\ Len(Unwrap(bytes)) = DigestLen THEN bytes ELSE None

Account_serialize(account) == [name |-> serialize_name(account.name)]

Account_deserialize(json) ==
    LET name == deserialize_name(json.name)
    IN  IF IsSome(name) THEN Some([name |-> Unwrap(name)]) ELSE None

TransactionIdentifier_serialize(target) ==
    [height |-> target.height, sign |-> serialize_signature(target.sign)]

TransactionIdentifier_deserialize(json) ==
    LET sign == deserialize_signature(json.sign)
    IN  IF IsSome(sign) THEN Some([height |-> json.height, sign |-> Unwrap(sign)])
        ELSE None

Methods == {"Insert", "Modify", "Remove"}

\* the keys "record" and "target" are written only when the field is Some
Content_serialize(content) ==
    [method |-> content.method,
     record |-> content.record,
     target |-> IF IsSome(content.target)
                THEN Some(TransactionIdentifier_serialize(Unwrap(content.target)))
                ELSE None]

\* a missing "record" or "target" key deserializes to None
Content_deserialize(json) ==
    LET target == IF IsSome(json.target)
                  THEN TransactionIdentifier_deserialize(Unwrap(json.target))
                  ELSE None
    IN  IF json.method \notin Methods THEN None
        ELSE IF IsSome(json.target) /\ ~IsSome(target) THEN None
        ELSE Some([method |-> json.method, record |-> json.record, target |-> target])

\* Serialize for Transaction<T, V>: the marker is skipped
Transaction_serialize(transaction) ==
    [account |-> Account_serialize(transaction.account),
     timestamp |-> transaction.timestamp,
     content |-> Content_serialize(transaction.content),
     sign |-> serialize_signature(transaction.sign)]

\* a deserializer that marks what it read as verified
Transaction_deserialize_as_verified(json) ==
    LET account == Account_deserialize(json.account)
        content == Content_deserialize(json.content)
        sign == deserialize_signature(json.sign)
    IN  IF IsSome(account) /\ IsSome(content) /\ IsSome(sign)
        THEN Ok([account |-> Unwrap(account), timestamp |-> json.timestamp,
                 content |-> Unwrap(content), sign |-> Unwrap(sign), v |-> "Verified"])
        ELSE Err("Deserialize")

\* Deserialize for Transaction<T, Yet>
Transaction_deserialize(json) ==
    LET account == Account_deserialize(json.account)
        content == Content_deserialize(json.content)
        sign == deserialize_signature(json.sign)
    IN  IF IsSome(account) /\ IsSome(content) /\ IsSome(sign)
        THEN Ok([account |-> Unwrap(account), timestamp |-> json.timestamp,
                 content |-> Unwrap(content), sign |-> Unwrap(sign), v |-> "Yet"])
        ELSE Err("Deserialize")

(***************************************************************************)
(* Merkle tree (rs_merkle): a layer is reduced by hashing each pair of     *)
(* neighbours; a last node without a neighbour is carried up unchanged.    *)
(***************************************************************************)
MerkleParentLayer(layer) ==
    Collect([i \in 1..((Len(layer) + 1) \div 2) |->
        IF 2 * i <= Len(layer)
        THEN calculate_digest(layer[2 * i - 1] \o layer[2 * i])
        ELSE layer[2 * i - 1]])

RECURSIVE MerkleReduce(_)
MerkleReduce(layer) ==
    IF Len(layer) <= 1 THEN layer ELSE MerkleReduce(MerkleParentLayer(layer))

\* MerkleTree::root of the tree over the given leaves: Option<[u8; 32]>
MerkleTree_root(leaves) == MerkleReduce(leaves)

\* a conversion to an array of the signature's length instead
try_into_sign_array(bytes) ==
    IF Len(bytes) = SignLen THEN Ok(bytes) ELSE Err("TryFromSliceError")

\* digest.as_ref().try_into(): a slice becomes a [u8; 32] when it has 32 bytes
try_into(bytes) ==
    IF Len(bytes) = DigestLen THEN Ok(bytes) ELSE Err("TryFromSliceError")

\* whether an unwrap() of build_merkle_tree aborts for the transactions
build_merkle_tree_panics(transactions) ==
    \E i \in 1..Len(transactions) :
        ~try_into(calculate_digest(transactions[i].sign)).ok

\* leaves taken from the last transaction to the first
build_merkle_tree_reversed(transactions) ==
    Collect([i \in 1..Len(transactions) |->
        calculate_digest(transactions[Len(transactions) + 1 - i].sign)])

\* the leaves of the tree build_merkle_tree makes
build_merkle_tree(transactions) ==
    Collect([i \in 1..Len(transactions) |-> calculate_digest(transactions[i].sign)])

(***************************************************************************)
(* Header                                                                  *)
(***************************************************************************)
\* a byte order with the height little-endian
Header_append_bytes_le_height(h) ==
    to_le_bytes(h.height)
    \o Timestamp_append_bytes(h.timestamp)
    \o h.previous_digest
    \o Difficulty_append_bytes(h.difficulty)
    \o h.merkle_root
    \o to_le_bytes(h.nonce)

\* a byte order that ends with the stored digest
Header_append_bytes_with_digest(h) ==
    to_be_bytes(h.height)
    \o Timestamp_append_bytes(h.timestamp)
    \o h.previous_digest
    \o Difficulty_append_bytes(h.difficulty)
    \o h.merkle_root
    \o to_le_bytes(h.nonce)
    \o h.digest

Header_append_bytes(h) ==
    to_be_bytes(h.height)
    \o Timestamp_append_bytes(h.timestamp)
    \o h.previous_digest
    \o Difficulty_append_bytes(h.difficulty)
    \o h.merkle_root
    \o to_le_bytes(h.nonce)

build_byte_order(h) == ByteOrderBuilder_append(<<>>, Header_append_bytes(h))

set_digest(h) == [h EXCEPT !.digest = calculate_digest(build_byte_order(h))]

\* a modify_nonce that leaves the digest as it was
modify_nonce_keeps_digest(h, nonce) == [h EXCEPT !.nonce = nonce]

modify_nonce(h, nonce) == set_digest([h EXCEPT !.nonce = nonce])

\* Header::create: Option<Header>
Header_create(height, timestamp, previous_digest, difficulty, transactions, nonce) ==
    LET root == MerkleTree_root(build_merkle_tree(transactions))
    IN  IF ~IsSome(root) THEN None
        ELSE Some(modify_nonce(
                 [height |-> height, timestamp |-> timestamp,
                  previous_digest |-> previous_digest, difficulty |-> difficulty,
                  merkle_root |-> Unwrap(root), nonce |-> nonce,
                  digest |-> calculate_digest(<<>>)],
                 nonce))

(***************************************************************************)
(* Block<T, VT, VB>: vt tags the transactions, vb the block                *)
(***************************************************************************)
\* a Block::create that starts the nonce at 1
Block_create_nonce_one(height, timestamp, previous_digest, difficulty, transactions, vt) ==
    LET header == Header_create(height, timestamp, previous_digest, difficulty,
                                transactions, 1)
    IN  IF ~IsSome(header) THEN Err("Empty")
        ELSE Ok([header |-> Unwrap(header), transactions |-> transactions,
                 vt |-> vt, vb |-> "Yet"])

\* Block::create: Result<Block<T, VT, Yet>, BlockError>
Block_create(height, timestamp, previous_digest, difficulty, transactions, vt) ==
    LET header == Header_create(height, timestamp, previous_digest, difficulty,
                                transactions, 0)
    IN  IF ~IsSome(header) THEN Err("Empty")
        ELSE Ok([header |-> Unwrap(header), transactions |-> transactions,
                 vt |-> vt, vb |-> "Yet"])

\* the position of the last transaction whose verification fails, 0 if none
RECURSIVE LastFailing(_, _)
LastFailing(transactions, i) ==
    IF i > Len(transactions) THEN 0
    ELSE IF LastFailing(transactions, i + 1) # 0 THEN LastFailing(transactions, i + 1)
    ELSE IF ~Transaction_verify(transactions[i]).ok THEN i
    ELSE 0

\* the position of the first transaction whose verification fails, 0 if none:
\* collect() stops at the first Err the iterator yields
RECURSIVE FirstFailing(_, _)
FirstFailing(transactions, i) ==
    IF i > Len(transactions) THEN 0
    ELSE IF ~Transaction_verify(transactions[i]).ok THEN i
    ELSE FirstFailing(transactions, i + 1)

\* the position of the transaction whose error verify_transactions wraps
verify_transactions_failing(block) == FirstFailing(block.transactions, 1)

\* a verify_transactions that hands back, next to the error, the transactions
\* that verified before the failing one
verify_transactions_keeps_verified(block) ==
    LET failing == FirstFailing(block.transactions, 1)
    IN  IF failing = 0
        THEN Ok([header |-> block.header,
                 transactions |-> Collect([i \in 1..Len(block.transactions) |->
                                      Unwrap(Transaction_verify(block.transactions[i]).value)]),
                 vt |-> "Verified", vb |-> block.vb])
        ELSE [ok |-> FALSE, err |-> "Transaction(Signature)",
              value |-> Some([header |-> block.header,
                              transactions |-> Collect([i \in 1..(failing - 1) |->
                                  Unwrap(Transaction_verify(block.transactions[i]).value)]),
                              vt |-> "Verified", vb |-> block.vb])]

\* a verify_transactions that builds the header of its result anew
verify_transactions_rebuilds_header(block) ==
    IF FirstFailing(block.transactions, 1) = 0
    THEN Ok([header |-> modify_nonce(block.header, 0),
             transactions |-> Collect([i \in 1..Len(block.transactions) |->
                                  Unwrap(Transaction_verify(block.transactions[i]).value)]),
             vt |-> "Verified", vb |-> block.vb])
    ELSE Err("Transaction(Signature)")

\* Block::verify_transactions on Block<T, Yet, VB>
verify_transactions(block) ==
    IF FirstFailing(block.transactions, 1) = 0
    THEN Ok([header |-> block.header,
             transactions |-> Collect([i \in 1..Len(block.transactions) |->
                                  Unwrap(Transaction_verify(block.transactions[i]).value)]),
             vt |-> "Verified", vb |-> block.vb])
    ELSE Err("Transaction(Signature)")

(***************************************************************************)
(* The previous_digest_judge closures a caller passes to verify_block      *)
(***************************************************************************)
\* the digest of the chain's last block in the caller's view
ChainTip == Collect([i \in 1..DigestLen |-> 0])

Judges == {"accept", "reject", "tip"}

Judge_apply(judge, header) ==
    CASE judge = "accept" -> TRUE
      [] judge = "reject" -> FALSE
      [] judge = "tip" -> header.previous_digest = ChainTip

\* verify_block with the digest check moved before the difficulty check
verify_block_digest_first(block, judge) ==
    LET merkle_root == MerkleTree_root(build_merkle_tree(block.transactions))
    IN  IF ~IsSome(merkle_root) THEN [res |-> Err("Empty"), calls |-> <<>>]
        ELSE IF Unwrap(merkle_root) # block.header.merkle_root
        THEN [res |-> Err("Merkle"), calls |-> <<>>]
        ELSE IF block.header.digest # calculate_digest(build_byte_order(block.header))
        THEN [res |-> Err("Digest"), calls |-> <<>>]
        ELSE IF ~verify_digest(block.header.difficulty, block.header.digest)
        THEN [res |-> Err("Difficulty"), calls |-> <<>>]
        ELSE IF ~Judge_apply(judge, block.header)
        THEN [res |-> Err("PreviousDigest"), calls |-> <<block.header>>]
        ELSE [res |-> Ok([header |-> block.header, transactions |-> block.transactions,
                          vt |-> block.vt, vb |-> "Verified"]),
              calls |-> <<block.header>>]

\* verify_block without the comparison of the stored and the recomputed digest
verify_block_no_digest_check(block, judge) ==
    LET merkle_root == MerkleTree_root(build_merkle_tree(block.transactions))
    IN  IF ~IsSome(merkle_root) THEN [res |-> Err("Empty"), calls |-> <<>>]
        ELSE IF Unwrap(merkle_root) # block.header.merkle_root
        THEN [res |-> Err("Merkle"), calls |-> <<>>]
        ELSE IF ~verify_digest(block.header.difficulty, block.header.digest)
        THEN [res |-> Err("Difficulty"), calls |-> <<>>]
        ELSE IF ~Judge_apply(judge, block.header)
        THEN [res |-> Err("PreviousDigest"), calls |-> <<block.header>>]
        ELSE [res |-> Ok([header |-> block.header, transactions |-> block.transactions,
                          vt |-> block.vt, vb |-> "Verified"]),
              calls |-> <<block.header>>]

\* verify_block that asks the judge before it runs its own checks
verify_block_judge_first(block, judge) ==
    LET merkle_root == MerkleTree_root(build_merkle_tree(block.transactions))
        accepted == Judge_apply(judge, block.header)
    IN  IF ~IsSome(merkle_root) THEN [res |-> Err("Empty"), calls |-> <<block.header>>]
        ELSE IF Unwrap(merkle_root) # block.header.merkle_root
        THEN [res |-> Err("Merkle"), calls |-> <<block.header>>]
        ELSE IF ~verify_digest(block.header.difficulty, block.header.digest)
        THEN [res |-> Err("Difficulty"), calls |-> <<block.header>>]
        ELSE IF block.header.digest # calculate_digest(build_byte_order(block.header))
        THEN [res |-> Err("Digest"), calls |-> <<block.header>>]
        ELSE IF ~accepted
        THEN [res |-> Err("PreviousDigest"), calls |-> <<block.header>>]
        ELSE [res |-> Ok([header |-> block.header, transactions |-> block.transactions,
                          vt |-> block.vt, vb |-> "Verified"]),
              calls |-> <<block.header>>]

\* Block::verify_block on Block<T, VT, Yet>: the result, and the headers the
\* judge was called with, in call order
verify_block(block, judge) ==
    LET merkle_root == MerkleTree_root(build_merkle_tree(block.transactions))
    IN  IF ~IsSome(merkle_root) THEN [res |-> Err("Empty"), calls |-> <<>>]
        ELSE IF Unwrap(merkle_root) # block.header.merkle_root
        THEN [res |-> Err("Merkle"), calls |-> <<>>]
        ELSE IF ~verify_digest(block.header.difficulty, block.header.digest)
        THEN [res |-> Err("Difficulty"), calls |-> <<>>]
        ELSE IF block.header.digest # calculate_digest(build_byte_order(block.header))
        THEN [res |-> Err("Digest"), calls |-> <<>>]
        ELSE IF ~Judge_apply(judge, block.header)
        THEN [res |-> Err("PreviousDigest"), calls |-> <<block.header>>]
        ELSE [res |-> Ok([header |-> block.header, transactions |-> block.transactions,
                          vt |-> block.vt, vb |-> "Verified"]),
              calls |-> <<block.header>>]

(***************************************************************************)
(* State                                                                   *)
(***************************************************************************)
VARIABLES
    block,      \* Option<Block>: the block the caller holds
    kept,       \* Option<Block>: a clone of the block the caller has put aside
    result,     \* what the last create / verify call on the block returned
    tx,         \* Option<Transaction>: the transaction a party holds in memory
    signed,     \* Option<Transaction>: the transaction as Transaction::create made it
    wire,       \* Option<JSON value>: the serialized transaction in flight
    tampers,    \* how many times the serialized transaction was rewritten in flight
    txres,      \* what the last call on the transaction returned
    headers,    \* the headers a party holds, one Option<Header> per slot
    hres,       \* what the last call on a header was
    diff,       \* Option<Difficulty>: the difficulty a party holds
    dres,       \* what the last call on the difficulty returned
    text,       \* Option<hex string>: the JSON string a parser is given
    parsed      \* what the parser returned for it

blockVars == <<block, kept, result>>

txVars == <<tx, signed, wire, tampers, txres>>

headerVars == <<headers, hres>>

diffVars == <<diff, dres>>

parseVars == <<text, parsed>>

vars ==
    <<block, kept, result, tx, signed, wire, tampers, txres, headers, hres, diff, dres,
      text, parsed>>

NoResult ==
    [op |-> "-", ok |-> FALSE, err |-> "-", input |-> None, args |-> None,
     judge |-> "-", calls |-> <<>>]

(***************************************************************************)
(* Inputs of the block specification                                       *)
(***************************************************************************)
Heights == {42, 43}

Timestamps == {-1, 66051}

OtherDigest == Collect([i \in 1..DigestLen |-> 255])

PreviousDigests == {ChainTip, OtherDigest}

MaxDifficulty == 1

Difficulties == 0..MaxDifficulty

TxA == Transaction_create(1, 66051, Content_insert(<<104, 105>>))

TxB == Transaction_create(NumKeys, -1, Content_remove([height |-> 42, sign |-> TxA.sign]))

\* transactions made by Transaction::create
VerifiedTxs == {TxA, TxB}

\* deserialized transactions: one as it was signed, one altered in flight
YetTxs == {[TxA EXCEPT !.v = "Yet"], [TxB EXCEPT !.v = "Yet", !.timestamp = 0]}

TxLists(S) == UNION {[1..n -> S] : n \in 0..MaxTxs}

(***************************************************************************)
(* Operations on the block                                                 *)
(***************************************************************************)
DoBlockCreate(height, timestamp, previous_digest, difficulty, transactions, vt) ==
    LET r == Block_create(height, timestamp, previous_digest, difficulty, transactions, vt)
    IN  /\ block' = r.value
        /\ kept' = None
        /\ result' = [NoResult EXCEPT !.op = "create", !.ok = r.ok, !.err = r.err,
                        !.args = Some([height |-> height, timestamp |-> timestamp,
                                       previous_digest |-> previous_digest,
                                       difficulty |-> difficulty,
                                       transactions |-> transactions, vt |-> vt])]

\* the caller builds a block when it holds nothing
BlockCreate ==
    /\ block = None
    /\ kept = None
    /\ result = NoResult
    /\ \E difficulty \in Difficulties, previous_digest \in PreviousDigests :
        \/ \E transactions \in TxLists(VerifiedTxs) :
               DoBlockCreate(42, 66051, previous_digest, difficulty, transactions,
                             "Verified")
        \/ \E transactions \in TxLists(YetTxs) :
               DoBlockCreate(42, 66051, previous_digest, difficulty, transactions, "Yet")
    /\ UNCHANGED <<txVars, headerVars, diffVars, parseVars>>

\* the caller drops what it holds: the blocks and the last call's result
Drop ==
    /\ IsSome(block) \/ IsSome(kept) \/ result # NoResult
    /\ block' = None
    /\ kept' = None
    /\ result' = NoResult
    /\ UNCHANGED <<txVars, headerVars, diffVars, parseVars>>

\* block.header_mut().modify_nonce(nonce), on Block<T, VT, Yet> only
ModifyNonce ==
    /\ IsSome(block)
    /\ Unwrap(block).vb = "Yet"
    /\ \E nonce \in 0..MaxNonce :
           block' = Some([Unwrap(block) EXCEPT !.header = modify_nonce(@, nonce)])
    /\ kept' = None
    /\ result' = NoResult
    /\ UNCHANGED <<txVars, headerVars, diffVars, parseVars>>

\* block.clone(): the caller puts the copy aside
Clone ==
    /\ IsSome(block)
    /\ kept' = block
    /\ UNCHANGED <<block, result>>
    /\ UNCHANGED <<txVars, headerVars, diffVars, parseVars>>

\* the caller goes on with the copy it put aside
TakeKept ==
    /\ IsSome(kept)
    /\ block' = kept
    /\ kept' = None
    /\ result' = NoResult
    /\ UNCHANGED <<txVars, headerVars, diffVars, parseVars>>

\* block.verify_transactions(): consumes the block
VerifyTransactions ==
    /\ IsSome(block)
    /\ Unwrap(block).vt = "Yet"
    /\ LET r == verify_transactions(Unwrap(block))
       IN  /\ block' = r.value
           /\ result' = [NoResult EXCEPT !.op = "verify_transactions", !.ok = r.ok,
                           !.err = r.err, !.input = block]
    /\ UNCHANGED kept
    /\ UNCHANGED <<txVars, headerVars, diffVars, parseVars>>

\* block.verify_block(judge): consumes the block
VerifyBlock ==
    /\ IsSome(block)
    /\ Unwrap(block).vb = "Yet"
    /\ \E judge \in Judges :
           LET r == verify_block(Unwrap(block), judge)
           IN  /\ block' = r.res.value
               /\ result' = [NoResult EXCEPT !.op = "verify_block", !.ok = r.res.ok,
                               !.err = r.res.err, !.input = block, !.judge = judge,
                               !.calls = r.calls]
    /\ UNCHANGED kept
    /\ UNCHANGED <<txVars, headerVars, diffVars, parseVars>>

\* the tests' direct writes to the private fields of a Block<T, VT, Yet>
CheatTransactions ==
    /\ IsSome(block)
    /\ Unwrap(block).vb = "Yet"
    /\ block' = Some([Unwrap(block) EXCEPT !.transactions = <<>>])
    /\ kept' = None
    /\ result' = NoResult
    /\ UNCHANGED <<txVars, headerVars, diffVars, parseVars>>

CheatDifficulty ==
    /\ IsSome(block)
    /\ Unwrap(block).vb = "Yet"
    /\ block' = Some([Unwrap(block) EXCEPT !.header.difficulty = HugeDifficulty])
    /\ kept' = None
    /\ result' = NoResult
    /\ UNCHANGED <<txVars, headerVars, diffVars, parseVars>>

CheatDigest ==
    /\ IsSome(block)
    /\ Unwrap(block).vb = "Yet"
    /\ \E digest \in {OtherDigest, ChainTip} :
           block' = Some([Unwrap(block) EXCEPT !.header.digest = digest])
    /\ kept' = None
    /\ result' = NoResult
    /\ UNCHANGED <<txVars, headerVars, diffVars, parseVars>>

(***************************************************************************)
(* The life of a transaction: created and signed, serialized, possibly     *)
(* altered in flight, deserialized by the receiver, verified.              *)
(***************************************************************************)
NoHeaderResult == [op |-> "-", slot |-> 0, nonce |-> 0, ok |-> FALSE, ntx |-> 0]

NoTxResult == [op |-> "-", ok |-> FALSE, err |-> "-", input |-> None]

TargetA == [height |-> 42, sign |-> TxA.sign]

\* contents the constructors build
Contents ==
    {Content_insert(<<>>), Content_insert(<<104, 105>>),
     Content_modify(<<97>>, TargetA), Content_remove(TargetA)}

\* JSON contents an intermediary can write: what the serializer writes, an
\* object without the optional keys, one with an unknown method
WireContents ==
    {Content_serialize(c) : c \in Contents}
    \cup {[method |-> "Insert", record |-> None, target |-> None],
          [method |-> "Upsert", record |-> Some(<<97>>), target |-> None]}

\* account names an intermediary can write: another account's, a name cut
\* short, a name with a character that is no hex digit
WireNames ==
    {serialize_name(PublicKey(k)) : k \in Keys}
    \cup {SubSeq(serialize_name(PublicKey(1)), 1, 2 * KeyLen - 1),
          [serialize_name(PublicKey(1)) EXCEPT ![1] = NotHexChar]}

\* signatures an intermediary can write: a signature of the empty message
\* (as in the tests), another transaction's, 64 bytes that are no signature,
\* a string cut short
WireSigns ==
    {serialize_signature(SecretAccount_sign(k, <<>>)) : k \in Keys}
    \cup {serialize_signature(TxA.sign),
          hex_encode(Collect([i \in 1..SignLen |-> 255])),
          SubSeq(serialize_signature(TxA.sign), 1, 2 * SignLen - 1)}

TxCreate ==
    /\ tx = None
    /\ wire = None
    /\ txres = NoTxResult
    /\ \E k \in Keys, timestamp \in Timestamps, content \in Contents :
        /\ tx' = Some(Transaction_create(k, timestamp, content))
        /\ signed' = tx'
    /\ wire' = None
    /\ tampers' = 0
    /\ txres' = [NoTxResult EXCEPT !.op = "create", !.ok = TRUE]
    /\ UNCHANGED <<blockVars, headerVars, diffVars, parseVars>>

\* serde_json::to_string(&tx) of the transaction just created
TxSerialize ==
    /\ IsSome(tx)
    /\ tx = signed
    /\ txres.op = "create"
    /\ wire' = Some(Transaction_serialize(Unwrap(tx)))
    /\ tampers' = 0
    /\ tx' = None
    /\ txres' = [NoTxResult EXCEPT !.op = "serialize", !.ok = TRUE, !.input = tx]
    /\ UNCHANGED <<signed, blockVars, headerVars, diffVars, parseVars>>

\* an intermediary rewrites one key of the serialized transaction
CorruptAccount ==
    /\ IsSome(wire)
    /\ tampers < MaxTampers
    /\ \E name \in WireNames :
        /\ name # Unwrap(wire).account.name
        /\ wire' = Some([Unwrap(wire) EXCEPT !.account.name = name])
    /\ tampers' = tampers + 1
    /\ UNCHANGED <<tx, signed, txres, blockVars, headerVars, diffVars, parseVars>>

CorruptTimestamp ==
    /\ IsSome(wire)
    /\ tampers < MaxTampers
    /\ \E timestamp \in Timestamps \cup {0} :
        /\ timestamp # Unwrap(wire).timestamp
        /\ wire' = Some([Unwrap(wire) EXCEPT !.timestamp = timestamp])
    /\ tampers' = tampers + 1
    /\ UNCHANGED <<tx, signed, txres, blockVars, headerVars, diffVars, parseVars>>

CorruptContent ==
    /\ IsSome(wire)
    /\ tampers < MaxTampers
    /\ \E content \in WireContents :
        /\ content # Unwrap(wire).content
        /\ wire' = Some([Unwrap(wire) EXCEPT !.content = content])
    /\ tampers' = tampers + 1
    /\ UNCHANGED <<tx, signed, txres, blockVars, headerVars, diffVars, parseVars>>

CorruptSign ==
    /\ IsSome(wire)
    /\ tampers < MaxTampers
    /\ \E sign \in WireSigns :
        /\ sign # Unwrap(wire).sign
        /\ wire' = Some([Unwrap(wire) EXCEPT !.sign = sign])
    /\ tampers' = tampers + 1
    /\ UNCHANGED <<tx, signed, txres, blockVars, headerVars, diffVars, parseVars>>

\* serde_json::from_str::<Transaction<_, Yet>>(&ser): the receiver reads the
\* message
TxDeserialize ==
    /\ IsSome(wire)
    /\ LET r == Transaction_deserialize(Unwrap(wire))
       IN  /\ tx' = r.value
           /\ txres' = [NoTxResult EXCEPT !.op = "deserialize", !.ok = r.ok,
                          !.err = r.err]
    /\ wire' = None
    /\ UNCHANGED <<signed, tampers, blockVars, headerVars, diffVars, parseVars>>

\* tx.verify(): consumes the Yet transaction
TxVerify ==
    /\ IsSome(tx)
    /\ Unwrap(tx).v = "Yet"
    /\ LET r == Transaction_verify(Unwrap(tx))
       IN  /\ tx' = r.value
           /\ txres' = [NoTxResult EXCEPT !.op = "verify", !.ok = r.ok, !.err = r.err,
                          !.input = tx]
    /\ UNCHANGED <<signed, wire, tampers, blockVars, headerVars, diffVars, parseVars>>

TxDrop ==
    /\ IsSome(signed)
    /\ tx' = None
    /\ signed' = None
    /\ wire' = None
    /\ tampers' = 0
    /\ txres' = NoTxResult
    /\ UNCHANGED <<blockVars, headerVars, diffVars, parseVars>>

(***************************************************************************)
(* Headers: a party holds up to two headers, made by Header::create or     *)
(* read from JSON, and searches nonces on them.  The first header takes    *)
(* every combination of inputs, the second one a fixed height, timestamp   *)
(* and difficulty.  The same specification builds blocks from every        *)
(* combination of inputs.                                                  *)
(***************************************************************************)
Slots == {1, 2}

\* transaction lists given to Header::create
HeaderTxLists == {<<>>, <<TxA>>, <<TxB, TxA>>}

\* the digest Header::create stores before it computes the real one
TemporalDigest == calculate_digest(<<>>)

HeaderCreate ==
    /\ block = None
    /\ result = NoResult
    /\ \E slot \in Slots :
        /\ headers[slot] = None
        /\ \E height \in (IF slot = 1 THEN Heights ELSE {42}),
              timestamp \in (IF slot = 1 THEN Timestamps ELSE {66051}),
              previous_digest \in PreviousDigests,
              difficulty \in (IF slot = 1 THEN Difficulties ELSE {0}),
              transactions \in HeaderTxLists, nonce \in 0..MaxNonce :
            LET option == Header_create(height, timestamp, previous_digest, difficulty,
                                        transactions, nonce)
            IN  /\ headers' = [headers EXCEPT ![slot] = option]
                /\ hres' = [op |-> "create", slot |-> slot, nonce |-> nonce,
                            ok |-> IsSome(option), ntx |-> Len(transactions)]
    /\ UNCHANGED <<blockVars, txVars, diffVars, parseVars>>

\* header.modify_nonce(nonce)
HeaderModifyNonce ==
    /\ \E slot \in Slots, nonce \in 0..MaxNonce :
        /\ IsSome(headers[slot])
        /\ headers' = [headers EXCEPT ![slot] = Some(modify_nonce(Unwrap(@), nonce))]
        /\ hres' = [op |-> "modify_nonce", slot |-> slot, nonce |-> nonce,
                    ok |-> TRUE, ntx |-> 0]
    /\ UNCHANGED <<blockVars, txVars, diffVars, parseVars>>

\* the second header is read from JSON (Header derives Deserialize): the
\* "digest" key holds whatever the sender wrote
HeaderDeserialize ==
    /\ IsSome(headers[2])
    /\ OtherDigest # Unwrap(headers[2]).digest
    /\ headers' = [headers EXCEPT ![2] = Some([Unwrap(@) EXCEPT !.digest = OtherDigest])]
    /\ hres' = [op |-> "deserialize", slot |-> 2, nonce |-> 0, ok |-> TRUE, ntx |-> 0]
    /\ UNCHANGED <<blockVars, txVars, diffVars, parseVars>>

HeaderDrop ==
    /\ \E slot \in Slots :
        /\ IsSome(headers[slot])
        /\ headers' = [headers EXCEPT ![slot] = None]
    /\ hres' = NoHeaderResult
    /\ UNCHANGED <<blockVars, txVars, diffVars, parseVars>>

\* Block::create with every combination of inputs
BlockCreateWide ==
    /\ block = None
    /\ kept = None
    /\ result = NoResult
    /\ headers = [slot \in Slots |-> None]
    /\ \E height \in Heights, timestamp \in Timestamps,
          previous_digest \in PreviousDigests, difficulty \in Difficulties :
        \/ \E transactions \in TxLists(VerifiedTxs) :
               DoBlockCreate(height, timestamp, previous_digest, difficulty,
                             transactions, "Verified")
        \/ \E transactions \in TxLists(YetTxs) :
               DoBlockCreate(height, timestamp, previous_digest, difficulty,
                             transactions, "Yet")
    /\ UNCHANGED <<txVars, headerVars, diffVars, parseVars>>

(***************************************************************************)
(* Difficulty: a party makes a difficulty, raises and eases it and tests   *)
(* digests against it.                                                     *)
(***************************************************************************)
NoDifficultyResult ==
    [op |-> "-", input |-> 0, panic |-> FALSE, value |-> 0, digest |-> <<>>,
     accepted |-> FALSE]

PadDigest(prefix, fill) ==
    Collect([i \in 1..DigestLen |-> IF i <= Len(prefix) THEN prefix[i] ELSE fill])

\* digests given to verify_digest: the one of the tests (a zero byte, then
\* 0xFF), all zero, all one, and zero bytes or bits after the first set bit
TestDigests ==
    {PadDigest(<<0>>, 255), PadDigest(<<>>, 0), PadDigest(<<>>, 255),
     PadDigest(<<1>>, 255), PadDigest(<<0, 0, 127>>, 255), PadDigest(<<0, 128>>, 0),
     PadDigest(<<15>>, 0), PadDigest(<<0, 64>>, 0), calculate_digest(<<1>>)}

\* Difficulty::new(d)
DifficultyNew ==
    /\ diff = None
    /\ \E d \in 0..HugeDifficulty : diff' = Some(d)
    /\ dres' = [NoDifficultyResult EXCEPT !.op = "new"]
    /\ UNCHANGED <<blockVars, txVars, headerVars, parseVars>>

\* let d = d.raise(): a panic ends the party
DifficultyRaise ==
    /\ IsSome(diff)
    /\ \E r \in Difficulty_raise(Unwrap(diff)) :
        /\ diff' = IF r.panic THEN None ELSE Some(r.value)
        /\ dres' = [NoDifficultyResult EXCEPT !.op = "raise", !.input = Unwrap(diff),
                      !.panic = r.panic, !.value = r.value]
    /\ UNCHANGED <<blockVars, txVars, headerVars, parseVars>>

\* let d = d.ease(): a panic ends the party
DifficultyEase ==
    /\ IsSome(diff)
    /\ \E r \in Difficulty_ease(Unwrap(diff)) :
        /\ diff' = IF r.panic THEN None ELSE Some(r.value)
        /\ dres' = [NoDifficultyResult EXCEPT !.op = "ease", !.input = Unwrap(diff),
                      !.panic = r.panic, !.value = r.value]
    /\ UNCHANGED <<blockVars, txVars, headerVars, parseVars>>

\* d.verify_digest(&digest)
DifficultyVerifyDigest ==
    /\ IsSome(diff)
    /\ \E digest \in TestDigests :
        dres' = [NoDifficultyResult EXCEPT !.op = "verify_digest",
                   !.input = Unwrap(diff), !.digest = digest,
                   !.accepted = verify_digest(Unwrap(diff), digest)]
    /\ UNCHANGED <<diff, blockVars, txVars, headerVars, parseVars>>

DifficultyDrop ==
    /\ IsSome(diff)
    /\ diff' = None
    /\ dres' = NoDifficultyResult
    /\ UNCHANGED <<blockVars, txVars, headerVars, parseVars>>

(***************************************************************************)
(* Mining, as the tests do it: a block is created, the nonce is raised by  *)
(* one until the digest satisfies the difficulty, a clone of the mined     *)
(* block is put aside, the block is possibly altered by a write to one of  *)
(* its fields, and verify_block is called.                                 *)
(***************************************************************************)
\* header_mut().modify_nonce(nonce + 1) while the digest misses the difficulty
MineSearch ==
    /\ IsSome(block)
    /\ kept = None
    /\ result.op \in {"create", "search"}
    /\ ~verify_digest(Unwrap(block).header.difficulty, Unwrap(block).header.digest)
    /\ Unwrap(block).header.nonce < MaxNonce
    /\ block' = Some([Unwrap(block) EXCEPT
                         !.header = modify_nonce(@, Unwrap(block).header.nonce + 1)])
    /\ result' = [result EXCEPT !.op = "search"]
    /\ UNCHANGED <<kept, txVars, headerVars, diffVars, parseVars>>

\* the loop ends: the digest satisfies the difficulty
MineFound ==
    /\ IsSome(block)
    /\ kept = None
    /\ result.op \in {"create", "search"}
    /\ verify_digest(Unwrap(block).header.difficulty, Unwrap(block).header.digest)
    /\ kept' = block
    /\ result' = [result EXCEPT !.op = "found"]
    /\ UNCHANGED <<block, txVars, headerVars, diffVars, parseVars>>

\* digests written over the stored one: all one bits (the tests'), all zero
\* bits, the digest of another header
ReplacementDigests ==
    {OtherDigest, ChainTip, calculate_digest(<<1>>)}

\* deserialized transactions that carry the signature of a transaction of
\* YetTxs over another content or timestamp
AlteredTxs ==
    {[TxA EXCEPT !.v = "Yet", !.content = Content_insert(<<>>)],
     [TxB EXCEPT !.v = "Yet"]}

\* block.header.digest = digest
TamperDigest ==
    /\ result.op = "found"
    /\ \E digest \in ReplacementDigests :
        /\ digest # Unwrap(block).header.digest
        /\ block' = Some([Unwrap(block) EXCEPT !.header.digest = digest])
    /\ result' = [result EXCEPT !.op = "tampered"]
    /\ UNCHANGED <<kept, txVars, headerVars, diffVars, parseVars>>

\* the transaction list is replaced by another one: transactions removed,
\* added, reordered, replaced, or altered in a field
TamperTransactions ==
    /\ result.op = "found"
    /\ \E transactions \in
           TxLists(IF Unwrap(block).vt = "Verified" THEN VerifiedTxs
                   ELSE YetTxs \cup AlteredTxs) :
        /\ transactions # Unwrap(block).transactions
        /\ block' = Some([Unwrap(block) EXCEPT !.transactions = transactions])
    /\ result' = [result EXCEPT !.op = "tampered"]
    /\ UNCHANGED <<kept, txVars, headerVars, diffVars, parseVars>>

\* block.verify_block(judge) after the search
MineVerify ==
    /\ result.op \in {"found", "tampered"}
    /\ \E judge \in Judges :
           LET r == verify_block(Unwrap(block), judge)
           IN  /\ block' = r.res.value
               /\ result' = [result EXCEPT !.op = "verify_block", !.ok = r.res.ok,
                               !.err = r.res.err, !.input = block, !.judge = judge,
                               !.calls = r.calls]
    /\ UNCHANGED <<kept, txVars, headerVars, diffVars, parseVars>>

(***************************************************************************)
(* Workers of a multi-threaded miner.  Each worker clones the header of    *)
(* the block under construction, tries the nonces of its own range on its  *)
(* clone in any order and at any pace, and a worker whose clone satisfies  *)
(* the difficulty writes it into the block, which is then verified.        *)
(***************************************************************************)
Workers == Slots

\* the nonces worker w tries; the ranges of two workers are disjoint
NonceRange(w) == ((w - 1) * (MaxNonce + 1))..(w * (MaxNonce + 1) - 1)

\* modify_nonce on headers that share their fields between the clones
worker_modify_nonce_shared(hs, w, nonce) ==
    [s \in Workers |->
        IF IsSome(hs[s]) THEN Some(modify_nonce(Unwrap(hs[s]), nonce)) ELSE None]

\* worker w calls modify_nonce(nonce) on its own clone
worker_modify_nonce(hs, w, nonce) ==
    [hs EXCEPT ![w] = Some(modify_nonce(Unwrap(@), nonce))]

\* the block the workers mine is built
WorkersStart ==
    /\ headers = [slot \in Slots |-> None]
    /\ BlockCreate

\* let header = block.header().clone(), moved into worker w
WorkerClone ==
    /\ IsSome(block)
    /\ result.op = "create"
    /\ \E w \in Workers :
        /\ headers[w] = None
        /\ headers' = [headers EXCEPT ![w] = Some(Unwrap(block).header)]
        /\ hres' = [op |-> "clone", slot |-> w, nonce |-> Unwrap(block).header.nonce,
                    ok |-> TRUE, ntx |-> 0]
    /\ UNCHANGED <<blockVars, txVars, diffVars, parseVars>>

\* worker w tries a nonce of its range
WorkerModifyNonce ==
    /\ result.op = "create"
    /\ \E w \in Workers : \E nonce \in NonceRange(w) :
        /\ IsSome(headers[w])
        /\ headers' = worker_modify_nonce(headers, w, nonce)
        /\ hres' = [op |-> "modify_nonce", slot |-> w, nonce |-> nonce,
                    ok |-> TRUE, ntx |-> 0]
    /\ UNCHANGED <<blockVars, txVars, diffVars, parseVars>>

\* worker w has a digest that satisfies the difficulty:
\* *block.header_mut() = header; block.verify_block(judge)
WorkerSubmit ==
    /\ IsSome(block)
    /\ result.op = "create"
    /\ \E w \in Workers, judge \in Judges :
        /\ IsSome(headers[w])
        /\ verify_digest(Unwrap(headers[w]).difficulty, Unwrap(headers[w]).digest)
        /\ LET found == [Unwrap(block) EXCEPT !.header = Unwrap(headers[w])]
               r == verify_block(found, judge)
           IN  /\ block' = r.res.value
               /\ result' = [result EXCEPT !.op = "verify_block", !.ok = r.res.ok,
                               !.err = r.res.err, !.input = Some(found),
                               !.judge = judge, !.calls = r.calls]
        /\ hres' = [op |-> "submit", slot |-> w, nonce |-> Unwrap(headers[w]).nonce,
                    ok |-> TRUE, ntx |-> 0]
    /\ UNCHANGED <<kept, headers, txVars, diffVars, parseVars>>

\* the workers stop and everything is dropped
WorkersDrop ==
    /\ IsSome(block) \/ result # NoResult
    /\ block' = None
    /\ result' = NoResult
    /\ headers' = [slot \in Slots |-> None]
    /\ hres' = NoHeaderResult
    /\ UNCHANGED <<kept, txVars, diffVars, parseVars>>

(***************************************************************************)
(* Parsing.  A party is handed a JSON string for a digest, a signature or  *)
(* an account name, or a transaction object holding such strings, and      *)
(* deserializes it.                                                        *)
(***************************************************************************)
NoParseResult == [kind |-> "-", ok |-> FALSE, value |-> None]

\* n bytes of one value
Fill(n, byte) == Collect([i \in 1..n |-> byte])

\* byte strings of the length len, one byte shorter and one byte longer, and
\* of half and twice the length
BytesAround(len) ==
    {Fill(n, byte) : n \in {0, len \div 2, len - 1, len, len + 1, 2 * len},
                     byte \in {0, 18, 31, 32, 255}}

\* the strings a sender can write for a value of len bytes: the hex of a byte
\* string, the same with its last character cut, with a character that is no
\* hex digit, and with one more character
HexStrings(len) ==
    UNION {{hex_encode(bytes),
            SubSeq(hex_encode(bytes), 1, 2 * Len(bytes) - 1),
            [i \in 1..(2 * Len(bytes)) |->
                IF i = 1 THEN NotHexChar ELSE hex_encode(bytes)[i]] \o <<>>,
            hex_encode(bytes) \o <<7>>} : bytes \in BytesAround(len)}

\* serde_json::from_str::<Sha256Digest>, as for the three digests of a Header
ParseDigest ==
    /\ text = None
    /\ \E string \in HexStrings(DigestLen) :
        /\ text' = Some(string)
        /\ parsed' = [kind |-> "digest", ok |-> IsSome(Digest_deserialize(string)),
                      value |-> Digest_deserialize(string)]
    /\ UNCHANGED <<blockVars, txVars, headerVars, diffVars>>

\* serde_json::from_str::<Signature>
ParseSignature ==
    /\ text = None
    /\ \E string \in HexStrings(SignLen) :
        /\ text' = Some(string)
        /\ parsed' = [kind |-> "signature", ok |-> IsSome(deserialize_signature(string)),
                      value |-> deserialize_signature(string)]
    /\ UNCHANGED <<blockVars, txVars, headerVars, diffVars>>

\* serde_json::from_str::<Account>
ParseAccount ==
    /\ text = None
    /\ \E string \in HexStrings(KeyLen) :
        /\ text' = Some(string)
        /\ parsed' = [kind |-> "account",
                      ok |-> IsSome(Account_deserialize([name |-> string])),
                      value |-> Account_deserialize([name |-> string])]
    /\ UNCHANGED <<blockVars, txVars, headerVars, diffVars>>

\* serde_json::from_str::<Transaction<_, Yet>> of the JSON of TxA in which the
\* sender has written the string for the name or for the signature
ParseTransaction ==
    /\ text = None
    /\ \E field \in {"name", "sign"} :
       \E string \in HexStrings(IF field = "name" THEN KeyLen ELSE SignLen) :
        LET json == IF field = "name"
                    THEN [Transaction_serialize(TxA) EXCEPT !.account.name = string]
                    ELSE [Transaction_serialize(TxA) EXCEPT !.sign = string]
            r == Transaction_deserialize(json)
        IN  /\ text' = Some(string)
            /\ parsed' = [kind |-> field, ok |-> r.ok, value |-> r.value]
    /\ UNCHANGED <<blockVars, txVars, headerVars, diffVars>>

ParseDrop ==
    /\ IsSome(text)
    /\ text' = None
    /\ parsed' = NoParseResult
    /\ UNCHANGED <<blockVars, txVars, headerVars, diffVars>>

Init ==
    /\ block = None
    /\ kept = None
    /\ result = NoResult
    /\ tx = None
    /\ signed = None
    /\ wire = None
    /\ tampers = 0
    /\ txres = NoTxResult
    /\ headers = [slot \in Slots |-> None]
    /\ hres = NoHeaderResult
    /\ diff = None
    /\ dres = NoDifficultyResult
    /\ text = None
    /\ parsed = NoParseResult

Next ==
    \/ BlockCreate
    \/ Drop
    \/ ModifyNonce
    \/ Clone
    \/ TakeKept
    \/ VerifyTransactions
    \/ VerifyBlock
    \/ CheatTransactions
    \/ CheatDifficulty
    \/ CheatDigest

Spec == Init /\ [][Next]_vars

NextTx ==
    \/ TxCreate
    \/ TxSerialize
    \/ CorruptAccount
    \/ CorruptTimestamp
    \/ CorruptContent
    \/ CorruptSign
    \/ TxDeserialize
    \/ TxVerify
    \/ TxDrop

SpecTx == Init /\ [][NextTx]_vars

NextHeader ==
    \/ HeaderCreate
    \/ HeaderModifyNonce
    \/ HeaderDeserialize
    \/ HeaderDrop
    \/ BlockCreateWide
    \/ Drop

SpecHeader == Init /\ [][NextHeader]_vars

NextDifficulty ==
    \/ DifficultyNew
    \/ DifficultyRaise
    \/ DifficultyEase
    \/ DifficultyVerifyDigest
    \/ DifficultyDrop

SpecDifficulty == Init /\ [][NextDifficulty]_vars

\* what a caller can do to a block through the public functions alone
NextApi ==
    \/ BlockCreate
    \/ ModifyNonce
    \/ VerifyTransactions
    \/ VerifyBlock
    \/ Clone
    \/ TakeKept
    \/ Drop

SpecApi == Init /\ [][NextApi]_vars

NextParse ==
    \/ ParseDigest
    \/ ParseSignature
    \/ ParseAccount
    \/ ParseTransaction
    \/ ParseDrop

SpecParse == Init /\ [][NextParse]_vars

NextMine ==
    \/ BlockCreate
    \/ MineSearch
    \/ MineFound
    \/ TamperDigest
    \/ TamperTransactions
    \/ MineVerify
    \/ Drop

SpecMine == Init /\ [][NextMine]_vars

NextWorkers ==
    \/ WorkersStart
    \/ WorkerClone
    \/ WorkerModifyNonce
    \/ WorkerSubmit
    \/ WorkersDrop

SpecWorkers == Init /\ [][NextWorkers]_vars

(***************************************************************************)
(* The five checks of verify_block, each stated on its own                 *)
(***************************************************************************)
EmptyFails(b) == Len(b.transactions) = 0

MerkleFails(b) ==
    MerkleTree_root(build_merkle_tree(b.transactions)) # Some(b.header.merkle_root)

DifficultyFails(b) == count_first_0_bits(b.header.digest) < b.header.difficulty

DigestFails(b) == b.header.digest # calculate_digest(Header_append_bytes(b.header))

JudgeFails(b, judge) == ~Judge_apply(judge, b.header)

CheckOrder == <<"Empty", "Merkle", "Difficulty", "Digest", "PreviousDigest">>

\* the positions in CheckOrder of the checks that fail for b and judge
FailingChecks(b, judge) ==
    {k \in 1..5 : CASE k = 1 -> EmptyFails(b)
                    [] k = 2 -> MerkleFails(b)
                    [] k = 3 -> DifficultyFails(b)
                    [] k = 4 -> DigestFails(b)
                    [] k = 5 -> JudgeFails(b, judge)}

Least(S) == CHOOSE k \in S : \A m \in S : k <= m

IsVerifiedBlock(o) == IsSome(o) /\ Unwrap(o).vb = "Verified"

C2_Step ==
    /\ (result'.op = "verify_block" /\ result' # result) =>
           (result'.ok <=> FailingChecks(Unwrap(result'.input), result'.judge) = {})
    /\ (IsVerifiedBlock(block') /\ block' # block) =>
           \/ /\ result'.op = "verify_block" /\ result'.ok /\ result'.input = block
              /\ FailingChecks(Unwrap(block), result'.judge) = {}
              /\ Unwrap(block') = [Unwrap(block) EXCEPT !.vb = "Verified"]
           \/ /\ result'.op = "verify_transactions" /\ IsVerifiedBlock(block)
              /\ Unwrap(block').header = Unwrap(block).header
           \/ block' = kept
    /\ (IsVerifiedBlock(kept') /\ kept' # kept) => kept' = block

C2_VerifiedOnlyByVerifyBlock == [][C2_Step]_vars

\* a verified block and a clone of it are held after a successful verify_block
C2_Witness ==
    /\ IsVerifiedBlock(block)
    /\ kept = block
    /\ result.op = "verify_block"
    /\ result.ok

(***************************************************************************)
(* C6: every block that reaches the Verified block state holds only        *)
(* transactions that are in the Verified state.                            *)
(***************************************************************************)
HoldsOnlyVerifiedTransactions(o) ==
    IsVerifiedBlock(o) =>
        /\ Unwrap(o).vt = "Verified"
        /\ \A i \in 1..Len(Unwrap(o).transactions) :
               Unwrap(o).transactions[i].v = "Verified"

C6_VerifiedBlockHoldsVerifiedTransactions ==
    HoldsOnlyVerifiedTransactions(block) /\ HoldsOnlyVerifiedTransactions(kept)

(***************************************************************************)
(* C3: a Verified transaction appears only from Transaction::create or     *)
(* from a verify() of a Yet transaction that succeeded; what the           *)
(* deserializer returns is always Yet.                                     *)
(***************************************************************************)
IsVerifiedTx(o) == IsSome(o) /\ Unwrap(o).v = "Verified"

SameFields(a, b) ==
    /\ a.account = b.account
    /\ a.timestamp = b.timestamp
    /\ a.content = b.content
    /\ a.sign = b.sign

C3_Step ==
    /\ (IsVerifiedTx(tx') /\ tx' # tx) =>
          \/ /\ txres'.op = "create"
             /\ \E k \in Keys :
                    Unwrap(tx') = Transaction_create(k, Unwrap(tx').timestamp,
                                                     Unwrap(tx').content)
          \/ /\ txres'.op = "verify"
             /\ txres'.ok
             /\ IsSome(tx)
             /\ Unwrap(tx).v = "Yet"
             /\ SameFields(Unwrap(tx'), Unwrap(tx))
             /\ Account_verify(Unwrap(tx).account,
                               build_signature_source(Unwrap(tx).account,
                                                      Unwrap(tx).timestamp,
                                                      Unwrap(tx).content),
                               Unwrap(tx).sign)
    /\ (txres'.op = "deserialize" /\ IsSome(wire) /\ IsSome(tx')) =>
          Unwrap(tx').v = "Yet"

C3_VerifiedOnlyByCreateOrVerify == [][C3_Step]_vars

\* the receiver holds a deserialized copy of a rewritten message: it is Yet,
\* and its signature does not verify
C3_Witness ==
    /\ txres.op = "deserialize"
    /\ txres.ok
    /\ tampers > 0
    /\ Unwrap(tx).v = "Yet"
    /\ ~Transaction_verify(Unwrap(tx)).ok

(***************************************************************************)
(* C4: a created transaction that is serialized, deserialized unaltered    *)
(* and verified passes verify(), and the result has the account,           *)
(* timestamp, content and signature of the created transaction.            *)
(***************************************************************************)
C4_RoundTripVerifies ==
    /\ (txres.op = "deserialize" /\ tampers = 0) =>
          txres.ok /\ SameFields(Unwrap(tx), Unwrap(signed))
    /\ (txres.op = "verify" /\ tampers = 0) =>
          /\ txres.ok
          /\ IsVerifiedTx(tx)
          /\ SameFields(Unwrap(tx), Unwrap(signed))

\* a Modify transaction (a record and a target) has made the round trip
C4_Witness ==
    /\ txres.op = "verify"
    /\ tampers = 0
    /\ txres.ok
    /\ Unwrap(tx).content.method = "Modify"
    /\ Unwrap(tx).timestamp < 0

(***************************************************************************)
(* C5: a transaction whose account, timestamp, content or signature        *)
(* differs from what was signed never passes verify(): the call returns    *)
(* TransactionError::Signature.                                            *)
(***************************************************************************)
C5_AlteredNeverVerifies ==
    (txres.op = "verify" /\ ~SameFields(Unwrap(txres.input), Unwrap(signed))) =>
        ~txres.ok /\ txres.err = "Signature"

(***************************************************************************)
(* C7: after Header::create and after every modify_nonce(n) the header's   *)
(* nonce is the value last set and its stored digest is the hash of its    *)
(* current canonical bytes, not an older digest and not the temporal value *)
(* of the construction; modify_nonce changes the nonce and the digest only.*)
(***************************************************************************)
\* the header a create or modify_nonce call has just written
DigestIsCurrent ==
    (hres.op \in {"create", "modify_nonce"} /\ hres.ok) =>
        /\ IsSome(headers[hres.slot])
        /\ Unwrap(headers[hres.slot]).nonce = hres.nonce
        /\ Unwrap(headers[hres.slot]).digest
           = calculate_digest(build_byte_order(Unwrap(headers[hres.slot])))
        /\ Unwrap(headers[hres.slot]).digest # TemporalDigest

\* modify_nonce leaves every other field, and every other header, as it was
C7_Step ==
    (hres'.op = "modify_nonce" /\ <<headers, hres>>' # <<headers, hres>>) =>
        /\ IsSome(headers[hres'.slot])
        /\ [Unwrap(headers'[hres'.slot]) EXCEPT
               !.nonce = Unwrap(headers[hres'.slot]).nonce,
               !.digest = Unwrap(headers[hres'.slot]).digest]
           = Unwrap(headers[hres'.slot])
        /\ \A slot \in Slots \ {hres'.slot} : headers'[slot] = headers[slot]

C7_DigestFollowsNonce == []DigestIsCurrent /\ [][C7_Step]_vars

\* modify_nonce has just replaced the wrong digest of a header read from
\* JSON, while the other header holds another nonce
C7_Witness ==
    /\ hres.op = "modify_nonce"
    /\ hres.slot = 2
    /\ hres.nonce = 1
    /\ IsSome(headers[1])
    /\ Unwrap(headers[1]).nonce = MaxNonce
    /\ Unwrap(headers[2]).nonce = 1
    /\ Unwrap(headers[2]).digest # OtherDigest

(***************************************************************************)
(* C8: the bytes a header is hashed from are its height (8 bytes, big-     *)
(* endian), timestamp (8 bytes, little-endian), previous digest,           *)
(* difficulty (8 bytes, little-endian), merkle root and nonce (8 bytes,    *)
(* little-endian), in this order; the stored digest is not among them.     *)
(***************************************************************************)
\* the little-endian bytes of a 64-bit value within the 32-bit range
LittleEndian8(x) ==
    <<x % 256, (x \div 256) % 256, (x \div 65536) % 256, (x \div 16777216) % 256,
      IF x < 0 THEN 255 ELSE 0, IF x < 0 THEN 255 ELSE 0,
      IF x < 0 THEN 255 ELSE 0, IF x < 0 THEN 255 ELSE 0>>

PreimageLayout(h) ==
    LET bytes == build_byte_order(h)
    IN  /\ Len(bytes) = 8 + 8 + DigestLen + 8 + DigestLen + 8
        /\ SubSeq(bytes, 1, 8)
           = <<0, 0, 0, 0, (h.height \div 16777216) % 256, (h.height \div 65536) % 256,
               (h.height \div 256) % 256, h.height % 256>>
        /\ SubSeq(bytes, 9, 16) = LittleEndian8(h.timestamp)
        /\ SubSeq(bytes, 17, 16 + DigestLen) = h.previous_digest
        /\ SubSeq(bytes, 17 + DigestLen, 24 + DigestLen) = LittleEndian8(h.difficulty)
        /\ SubSeq(bytes, 25 + DigestLen, 24 + 2 * DigestLen) = h.merkle_root
        /\ SubSeq(bytes, 25 + 2 * DigestLen, 32 + 2 * DigestLen) = LittleEndian8(h.nonce)

C8_HeaderPreimage ==
    /\ \A slot \in Slots : IsSome(headers[slot]) => PreimageLayout(Unwrap(headers[slot]))
    /\ IsSome(block) => PreimageLayout(Unwrap(block).header)

\* a header with a negative timestamp, a nonce and a difficulty other than 0
C8_Witness ==
    /\ IsSome(headers[1])
    /\ Unwrap(headers[1]).height = 43
    /\ Unwrap(headers[1]).timestamp = -1
    /\ Unwrap(headers[1]).difficulty = MaxDifficulty
    /\ Unwrap(headers[1]).nonce = MaxNonce
    /\ Unwrap(headers[1]).previous_digest = OtherDigest

(***************************************************************************)
(* C9: the recomputed digests of two headers differ exactly when the       *)
(* headers differ in height, timestamp, previous digest, difficulty,       *)
(* merkle root or nonce; headers that differ in the stored digest only     *)
(* recompute to the same digest.                                           *)
(***************************************************************************)
HashedFields(h) ==
    <<h.height, h.timestamp, h.previous_digest, h.difficulty, h.merkle_root, h.nonce>>

Recomputed(h) == set_digest(h).digest

C9_DigestTracksFields ==
    (IsSome(headers[1]) /\ IsSome(headers[2])) =>
        (Recomputed(Unwrap(headers[1])) # Recomputed(Unwrap(headers[2]))
         <=> HashedFields(Unwrap(headers[1])) # HashedFields(Unwrap(headers[2])))

\* two headers that differ in the stored digest only
C9_Witness ==
    /\ IsSome(headers[1])
    /\ IsSome(headers[2])
    /\ HashedFields(Unwrap(headers[1])) = HashedFields(Unwrap(headers[2]))
    /\ Unwrap(headers[1]).digest # Unwrap(headers[2]).digest
    /\ Unwrap(headers[1]).nonce > 0

(***************************************************************************)
(* C10: Header::create returns None and Block::create returns              *)
(* Err(BlockError::Empty) exactly for an empty transaction list; for any   *)
(* other list both succeed, and the block is Yet and holds the given       *)
(* height, timestamp, previous digest and difficulty with nonce 0.         *)
(***************************************************************************)
C10_CreateFailsExactlyOnEmpty ==
    /\ hres.op = "create" =>
          /\ hres.ok <=> hres.ntx > 0
          /\ IsSome(headers[hres.slot]) <=> hres.ntx > 0
    /\ result.op = "create" =>
          LET args == Unwrap(result.args)
          IN  IF args.transactions = <<>>
              THEN ~result.ok /\ result.err = "Empty" /\ block = None
              ELSE /\ result.ok
                   /\ IsSome(block)
                   /\ Unwrap(block).vb = "Yet"
                   /\ Unwrap(block).transactions = args.transactions
                   /\ Unwrap(block).header.height = args.height
                   /\ Unwrap(block).header.timestamp = args.timestamp
                   /\ Unwrap(block).header.previous_digest = args.previous_digest
                   /\ Unwrap(block).header.difficulty = args.difficulty
                   /\ Unwrap(block).header.nonce = 0

\* a block of two transactions built from the less usual inputs
C10_Witness ==
    /\ result.op = "create"
    /\ result.ok
    /\ Len(Unwrap(block).transactions) = MaxTxs
    /\ Unwrap(block).header.height = 43
    /\ Unwrap(block).header.timestamp = -1
    /\ Unwrap(block).header.previous_digest = OtherDigest
    /\ Unwrap(block).header.difficulty = MaxDifficulty
    /\ Unwrap(block).header.nonce = 0

(***************************************************************************)
(* C11: the merkle leaves are the hashes of the transactions' signatures   *)
(* in list order: the root of a one-transaction list is the hash of that   *)
(* transaction's signature, the root of a two-transaction list is the hash *)
(* of the two leaves in list order, an empty list has no root, and the     *)
(* root Header::create stores is the one verify_block recomputes from the  *)
(* same list.                                                              *)
(***************************************************************************)
C11_MerkleRootOfSignatures ==
    result.op = "create" =>
        LET transactions == Unwrap(result.args).transactions
            root == MerkleTree_root(build_merkle_tree(transactions))
        IN  /\ transactions = <<>> => root = None /\ block = None
            /\ transactions # <<>> =>
                  /\ IsSome(block)
                  /\ root = Some(Unwrap(block).header.merkle_root)
                  /\ \A judge \in Judges :
                         verify_block(Unwrap(block), judge).res.err
                             \notin {"Empty", "Merkle"}
            /\ Len(transactions) = 1 =>
                  Unwrap(block).header.merkle_root
                      = calculate_digest(transactions[1].sign)
            /\ Len(transactions) = 2 =>
                  Unwrap(block).header.merkle_root
                      = calculate_digest(calculate_digest(transactions[1].sign)
                                         \o calculate_digest(transactions[2].sign))

\* a block of one deserialized transaction has just been created
C11_Witness ==
    /\ result.op = "create"
    /\ result.ok
    /\ Len(Unwrap(block).transactions) = 1
    /\ Unwrap(block).vt = "Yet"
    /\ Unwrap(block).header.merkle_root
       = calculate_digest(Unwrap(block).transactions[1].sign)

(***************************************************************************)
(* C12: Difficulty(d).verify_digest(digest) holds exactly when the digest  *)
(* starts with at least d zero bits (bytes left to right, most significant *)
(* bit first): a zero byte followed by 0xFF bytes passes 8 and fails 9,    *)
(* threshold 0 accepts every digest, a threshold above 256 accepts none.   *)
(***************************************************************************)
\* bit j (1..8 * Len(bytes)) of a byte string, most significant bit first
BitOf(bytes, j) ==
    LET byte == bytes[((j - 1) \div 8) + 1]
        shift == 7 - ((j - 1) % 8)
    IN  (byte \div (2 ^ shift)) % 2

\* TRUE iff the first n bits are all zero
StartsWithZeroBits(bytes, n) ==
    n <= 8 * Len(bytes) /\ \A j \in 1..n : BitOf(bytes, j) = 0

C12_VerifyDigestCountsLeadingZeros ==
    dres.op = "verify_digest" =>
        /\ dres.accepted <=> StartsWithZeroBits(dres.digest, dres.input)
        /\ dres.input = 0 => dres.accepted
        /\ dres.input > 8 * DigestLen => ~dres.accepted
        /\ (dres.digest = PadDigest(<<0>>, 255) /\ dres.input = 8) => dres.accepted
        /\ (dres.digest = PadDigest(<<0>>, 255) /\ dres.input = 9) => ~dres.accepted

\* threshold 9 has just rejected a digest with zero bits after its first
\* set bit
C12_Witness ==
    /\ dres.op = "verify_digest"
    /\ dres.input = 9
    /\ dres.digest = PadDigest(<<0, 128>>, 0)
    /\ ~dres.accepted

(***************************************************************************)
(* C13: for every difficulty d, 0 and MIN_DIFFICULTY included, d.ease()    *)
(* completes without arithmetic underflow and returns d - 1 when that is   *)
(* at least MIN_DIFFICULTY, and MIN_DIFFICULTY otherwise.                  *)
(***************************************************************************)
C13_EaseStopsAtFloor ==
    dres.op = "ease" =>
        /\ ~dres.panic
        /\ dres.value >= MIN_DIFFICULTY
        /\ dres.value = IF dres.input - 1 >= MIN_DIFFICULTY THEN dres.input - 1
                        ELSE MIN_DIFFICULTY

(***************************************************************************)
(* C14: for every difficulty d, u64::MAX included, d.raise() completes     *)
(* without overflow and returns d + 1, which is harder than d: a digest    *)
(* that satisfies d.raise() satisfies d.                                   *)
(***************************************************************************)
C14_RaiseIsHarder ==
    dres.op = "raise" =>
        /\ ~dres.panic
        /\ dres.value = dres.input + 1
        /\ \A digest \in TestDigests :
               verify_digest(dres.value, digest) => verify_digest(dres.input, digest)

(***************************************************************************)
(* C15: a block made by Block::create over a non-empty list, whose nonce   *)
(* was raised until the digest satisfies the difficulty, passes            *)
(* verify_block with a predicate that returns true; the verified block has *)
(* the height, timestamp, previous digest, difficulty and transactions     *)
(* given to Block::create and its digest satisfies the difficulty.         *)
(***************************************************************************)
C15_MinedBlockVerifies ==
    (/\ result.op = "verify_block"
     /\ result.input = kept
     /\ Judge_apply(result.judge, Unwrap(kept).header)) =>
        /\ result.ok
        /\ IsVerifiedBlock(block)
        /\ Unwrap(block).header.height = Unwrap(result.args).height
        /\ Unwrap(block).header.timestamp = Unwrap(result.args).timestamp
        /\ Unwrap(block).header.previous_digest = Unwrap(result.args).previous_digest
        /\ Unwrap(block).header.difficulty = Unwrap(result.args).difficulty
        /\ Unwrap(block).transactions = Unwrap(result.args).transactions
        /\ verify_digest(Unwrap(block).header.difficulty, Unwrap(block).header.digest)

\* a block of difficulty 1 whose first digest missed the difficulty was
\* mined with a later nonce and verified
C15_Witness ==
    /\ result.op = "verify_block"
    /\ result.input = kept
    /\ result.ok
    /\ Unwrap(block).header.difficulty = 1
    /\ Unwrap(block).header.nonce > 0

(***************************************************************************)
(* C16 as stated: after the search, a different value written over the     *)
(* stored digest alone makes verify_block fail with BlockError::Digest,    *)
(* whatever the value.                                                     *)
(***************************************************************************)
OnlyDigestReplaced ==
    /\ result.op = "verify_block"
    /\ IsSome(kept)
    /\ Unwrap(result.input).header.digest # Unwrap(kept).header.digest
    /\ [Unwrap(result.input) EXCEPT !.header.digest = Unwrap(kept).header.digest]
       = Unwrap(kept)

C16_ReplacedDigestGivesDigestError ==
    OnlyDigestReplaced => ~result.ok /\ result.err = "Digest"

(***************************************************************************)
(* C16 amended: after the search, a different value written over the       *)
(* stored digest alone makes verify_block fail: with BlockError::Digest    *)
(* when the written value satisfies the header's difficulty, with          *)
(* BlockError::Difficulty when it does not.                                *)
(***************************************************************************)
C16_ReplacedDigestFails ==
    OnlyDigestReplaced =>
        /\ ~result.ok
        /\ block = None
        /\ result.err =
               IF verify_digest(Unwrap(result.input).header.difficulty,
                                Unwrap(result.input).header.digest)
               THEN "Digest" ELSE "Difficulty"

\* the tests' case: difficulty 1 and a digest of all one bits
C16_Witness ==
    /\ OnlyDigestReplaced
    /\ Unwrap(result.input).header.difficulty = 1
    /\ Unwrap(result.input).header.digest = OtherDigest
    /\ result.judge = "accept"
    /\ result.err = "Difficulty"

(***************************************************************************)
(* C17: after the search, a block whose transaction list was altered       *)
(* (transactions removed, added, reordered, replaced, or changed in their  *)
(* account, timestamp or content) never passes verify_block: the call      *)
(* fails with BlockError::Merkle, or BlockError::Empty for an empty list.  *)
(***************************************************************************)
C17_AlteredTransactionsRejected ==
    (/\ result.op = "verify_block"
     /\ IsSome(kept)
     /\ Unwrap(result.input).header = Unwrap(kept).header
     /\ Unwrap(result.input).transactions # Unwrap(kept).transactions) =>
        /\ ~result.ok
        /\ result.err =
               IF Unwrap(result.input).transactions = <<>> THEN "Empty" ELSE "Merkle"

(***************************************************************************)
(* C18: the verification calls consume their input and return a fully     *)
(* verified value or an error, nothing in between.  Transaction::verify    *)
(* gives either the same transaction with the Verified tag or an error     *)
(* without a value.  verify_transactions fails as a whole, with            *)
(* BlockError::Transaction and without a block, as soon as one transaction *)
(* of the list fails, even when others verified; otherwise it gives the    *)
(* block with every transaction Verified.  verify_block gives the same     *)
(* block with the Verified tag or an error without a block.                *)
(***************************************************************************)
VerifiesAlone(t) == Transaction_verify(t).ok

C18_VerifyAllOrNothing ==
    /\ result.op = "verify_transactions" =>
           LET input == Unwrap(result.input)
               n == Len(input.transactions)
           IN  /\ \A i \in 1..n :
                      LET r == Transaction_verify(input.transactions[i])
                      IN  IF r.ok
                          THEN /\ IsVerifiedTx(r.value)
                               /\ SameFields(Unwrap(r.value), input.transactions[i])
                          ELSE r.value = None /\ r.err = "Signature"
               /\ IF \E i \in 1..n : ~VerifiesAlone(input.transactions[i])
                  THEN /\ ~result.ok
                       /\ result.err = "Transaction(Signature)"
                       /\ block = None
                  ELSE /\ result.ok
                       /\ IsSome(block)
                       /\ Unwrap(block).vt = "Verified"
                       /\ Unwrap(block).vb = input.vb
                       /\ Unwrap(block).header = input.header
                       /\ Len(Unwrap(block).transactions) = n
                       /\ \A i \in 1..n :
                              /\ Unwrap(block).transactions[i].v = "Verified"
                              /\ SameFields(Unwrap(block).transactions[i],
                                            input.transactions[i])
    /\ result.op = "verify_block" =>
           IF result.ok
           THEN block = Some([Unwrap(result.input) EXCEPT !.vb = "Verified"])
           ELSE block = None

\* one transaction of two verified, the other failed, and the call failed
C18_Witness ==
    /\ result.op = "verify_transactions"
    /\ ~result.ok
    /\ block = None
    /\ Len(Unwrap(result.input).transactions) = 2
    /\ VerifiesAlone(Unwrap(result.input).transactions[1])
    /\ ~VerifiesAlone(Unwrap(result.input).transactions[2])

(***************************************************************************)
(* C19: Block::create (and Header::create in it), verify_transactions (and *)
(* Transaction::verify in it) and verify_block never abort: the unwrap()   *)
(* of build_merkle_tree meets a 32-byte digest for every transaction, and  *)
(* every call ends with a value or with an error of a documented kind:     *)
(* Empty for create, Transaction(Signature) for verify_transactions,       *)
(* Empty, Merkle, Difficulty, Digest or PreviousDigest for verify_block.    *)
(***************************************************************************)
BlockErrorKinds == {"Empty", "Merkle", "Difficulty", "Digest", "PreviousDigest"}

C19_FailuresAreReturned ==
    /\ result.op = "create" =>
           /\ ~build_merkle_tree_panics(Unwrap(result.args).transactions)
           /\ IF result.ok THEN IsSome(block) ELSE result.err = "Empty"
    /\ result.op = "verify_transactions" =>
           IF result.ok THEN IsSome(block) ELSE result.err = "Transaction(Signature)"
    /\ result.op = "verify_block" =>
           /\ ~build_merkle_tree_panics(Unwrap(result.input).transactions)
           /\ IF result.ok THEN IsSome(block) ELSE result.err \in BlockErrorKinds

\* a verify_block over two transactions that ended with an error
C19_Witness ==
    /\ result.op = "verify_block"
    /\ Len(Unwrap(result.input).transactions) = 2
    /\ ~result.ok
    /\ result.err = "Difficulty"

(***************************************************************************)
(* C20: workers that each hold a clone of one header and try the nonces of *)
(* disjoint ranges, interleaved in any way: a modify_nonce of one worker   *)
(* changes only the nonce and the digest of that worker's clone and leaves *)
(* the other clones and the block alone; the digest of every clone is at   *)
(* every moment the hash of that clone's own fields; and a clone whose     *)
(* digest satisfies the difficulty, written into the block, passes the     *)
(* difficulty and the digest check of verify_block (the call succeeds      *)
(* exactly when the judge accepts).                                        *)
(***************************************************************************)
ClonesAreCurrent ==
    \A w \in Workers :
        IsSome(headers[w]) =>
            Unwrap(headers[w]).digest
            = calculate_digest(build_byte_order(Unwrap(headers[w])))

SubmittedClonePasses ==
    hres.op = "submit" =>
        /\ result.op = "verify_block"
        /\ Unwrap(result.input).header = Unwrap(headers[hres.slot])
        /\ result.err \notin {"Difficulty", "Digest"}
        /\ result.ok <=> Judge_apply(result.judge, Unwrap(result.input).header)
        /\ result.ok => Unwrap(block).header = Unwrap(headers[hres.slot])

C20_Step ==
    (hres'.op = "modify_nonce" /\ <<headers, hres>>' # <<headers, hres>>) =>
        /\ block' = block
        /\ \A w \in Workers \ {hres'.slot} : headers'[w] = headers[w]
        /\ Unwrap(headers'[hres'.slot]).nonce = hres'.nonce
        /\ [Unwrap(headers'[hres'.slot]) EXCEPT
               !.nonce = Unwrap(headers[hres'.slot]).nonce,
               !.digest = Unwrap(headers[hres'.slot]).digest]
           = Unwrap(headers[hres'.slot])

C20_ClonesAreIndependent ==
    [](ClonesAreCurrent /\ SubmittedClonePasses) /\ [][C20_Step]_vars

\* both workers hold a clone with a nonce of their own range, and the
\* second worker's clone was accepted by verify_block
C20_Witness ==
    /\ hres.op = "submit"
    /\ hres.slot = 2
    /\ result.ok
    /\ IsSome(headers[1])
    /\ Unwrap(headers[1]).nonce \in NonceRange(1) \ {0}
    /\ Unwrap(headers[2]).nonce \in NonceRange(2)
    /\ Unwrap(block).header.nonce = Unwrap(headers[2]).nonce

(***************************************************************************)
(* C21: the bytes Transaction::create signs and the bytes                  *)
(* Transaction::verify checks come from the same function and are the      *)
(* account's public key, then the timestamp's eight little-endian bytes,   *)
(* then the canonical bytes of the content, and nothing else; the builder  *)
(* yields the appended byte orders one after the other in append order.    *)
(***************************************************************************)
SignedBytes(t) ==
    t.account.name \o LittleEndian8(t.timestamp) \o Content_append_bytes(t.content)

SignatureSourceLayout(t) ==
    LET source == build_signature_source(t.account, t.timestamp, t.content)
    IN  /\ source = SignedBytes(t)
        /\ Len(source) = KeyLen + 8 + Len(Content_append_bytes(t.content))
        /\ SubSeq(source, 1, KeyLen) = t.account.name
        /\ SubSeq(source, KeyLen + 1, KeyLen + 8) = LittleEndian8(t.timestamp)
        /\ SubSeq(source, KeyLen + 9, Len(source)) = Content_append_bytes(t.content)

C21_SignatureSource ==
    /\ IsSome(tx) => SignatureSourceLayout(Unwrap(tx))
    /\ IsSome(signed) =>
           \E k \in Keys :
               /\ Unwrap(signed).account = to_public(k)
               /\ Unwrap(signed).sign = SecretAccount_sign(k, SignedBytes(Unwrap(signed)))
    /\ txres.op = "verify" =>
           /\ SignatureSourceLayout(Unwrap(txres.input))
           /\ txres.ok <=> Account_verify(Unwrap(txres.input).account,
                                          SignedBytes(Unwrap(txres.input)),
                                          Unwrap(txres.input).sign)

\* a Remove transaction read from JSON has passed verify
C21_Witness ==
    /\ txres.op = "verify"
    /\ txres.ok
    /\ Unwrap(tx).content.method = "Remove"
    /\ Unwrap(tx).timestamp = 66051

(***************************************************************************)
(* C22: a parser accepts a string for a fixed-size value only when it is   *)
(* the hex of exactly that many bytes: 32 for a digest, 32 for an account  *)
(* name, 64 for a signature, whose last byte must also have its three top  *)
(* bits clear.  What it accepts is the bytes the string spells, neither    *)
(* cut nor padded; what it refuses gives no value, so that a transaction   *)
(* carrying such a string is never built and never reaches verify.         *)
(***************************************************************************)
WellFormedHex(string, len) ==
    /\ Len(string) = 2 * len
    /\ \A i \in 1..Len(string) : string[i] \in 0..15

Expected(kind, string) ==
    CASE kind = "digest" -> WellFormedHex(string, DigestLen)
      [] kind \in {"account", "name"} -> WellFormedHex(string, KeyLen)
      [] kind \in {"signature", "sign"} ->
            WellFormedHex(string, SignLen) /\ string[2 * SignLen - 1] < 2

\* the bytes a parsed value holds for the string
ParsedBytes(kind, value) ==
    CASE kind \in {"digest", "signature"} -> value
      [] kind = "account" -> value.name
      [] kind = "name" -> value.account.name
      [] kind = "sign" -> value.sign

C22_MalformedRejected ==
    parsed.kind # "-" =>
        /\ parsed.ok => Expected(parsed.kind, Unwrap(text))
        /\ (parsed.kind = "digest" /\ Expected(parsed.kind, Unwrap(text))) => parsed.ok
        /\ parsed.ok <=> IsSome(parsed.value)
        /\ parsed.ok =>
               /\ hex_encode(ParsedBytes(parsed.kind, Unwrap(parsed.value))) = Unwrap(text)
               /\ parsed.kind \in {"name", "sign"} =>
                      /\ Unwrap(parsed.value).v = "Yet"
                      /\ Len(Unwrap(parsed.value).account.name) = KeyLen
                      /\ Len(Unwrap(parsed.value).sign) = SignLen

\* a digest of 33 bytes, a well-formed hex string, was refused
C22_Witness ==
    /\ parsed.kind = "digest"
    /\ ~parsed.ok
    /\ WellFormedHex(Unwrap(text), DigestLen + 1)

(***************************************************************************)
(* C23: verify_transactions returns Ok exactly when every transaction of   *)
(* the block passes Transaction::verify.  On success the header, the order *)
(* and the fields of the transactions and the block's own tag are as       *)
(* before, only the transactions' tag has become Verified.  On failure the *)
(* error is BlockError::Transaction around the signature error of the      *)
(* first transaction, in list order, that fails.                           *)
(***************************************************************************)
FailingPositions(b) ==
    {i \in 1..Len(b.transactions) : ~Transaction_verify(b.transactions[i]).ok}

C24_JudgeCalledLast ==
    result.op = "verify_block" =>
        LET input == Unwrap(result.input)
            own == FailingChecks(input, result.judge) \cap 1..4
        IN  /\ Len(result.calls) <= 1
            /\ own # {} => result.calls = <<>>
            /\ own = {} => result.calls = <<input.header>>
            /\ result.err = "PreviousDigest" <=>
                   (own = {} /\ ~Judge_apply(result.judge, input.header))

\* the predicate that looks at the header's previous digest was called once
\* and rejected
C24_Witness ==
    /\ result.op = "verify_block"
    /\ result.judge = "tip"
    /\ result.err = "PreviousDigest"
    /\ result.calls = <<Unwrap(result.input).header>>

(***************************************************************************)
(* C25: a block that comes from Block::create and has since seen only      *)
(* header_mut().modify_nonce(n), verify_transactions, verify_block and     *)
(* clone calls has a non-empty transaction list, a stored merkle root that *)
(* is the root of its transactions and a stored digest that is the hash of *)
(* its header; verify_block on it fails, if at all, with Difficulty or     *)
(* PreviousDigest.                                                         *)
(***************************************************************************)
WellBuilt(o) ==
    IsSome(o) =>
        /\ Unwrap(o).transactions # <<>>
        /\ MerkleTree_root(build_merkle_tree(Unwrap(o).transactions))
           = Some(Unwrap(o).header.merkle_root)
        /\ Unwrap(o).header.digest
           = calculate_digest(build_byte_order(Unwrap(o).header))

C25_WellBuiltBlocks ==
    /\ WellBuilt(block)
    /\ WellBuilt(kept)
    /\ result.op = "verify_block" =>
           /\ WellBuilt(result.input)
           /\ result.ok \/ result.err \in {"Difficulty", "PreviousDigest"}

\* a block of two transactions, verified and given another nonce, has failed
\* the difficulty check
C25_Witness ==
    /\ result.op = "verify_block"
    /\ result.err = "Difficulty"
    /\ Unwrap(result.input).vt = "Verified"
    /\ Len(Unwrap(result.input).transactions) = 2
    /\ Unwrap(result.input).header.nonce = MaxNonce

(***************************************************************************)
(* C26: for a block whose transactions and whose own tag are both Yet,     *)
(* verify_transactions followed by verify_block and verify_block followed  *)
(* by verify_transactions, with the same predicate, both succeed or both   *)
(* fail, and when they succeed they give the same block, Verified in both  *)
(* tags, with the header and the transactions of the block they started    *)
(* from.                                                                   *)
(***************************************************************************)
TransactionsThenBlock(b, judge) ==
    LET r == verify_transactions(b)
    IN  IF r.ok THEN verify_block(Unwrap(r.value), judge).res ELSE r

BlockThenTransactions(b, judge) ==
    LET r == verify_block(b, judge).res
    IN  IF r.ok THEN verify_transactions(Unwrap(r.value)) ELSE r

Commute(b) ==
    \A judge \in Judges :
        LET one == TransactionsThenBlock(b, judge)
            other == BlockThenTransactions(b, judge)
        IN  /\ one.ok <=> other.ok
            /\ one.ok =>
                   /\ one.value = other.value
                   /\ Unwrap(one.value).vt = "Verified"
                   /\ Unwrap(one.value).vb = "Verified"
                   /\ Unwrap(one.value).header = b.header
                   /\ \A i \in 1..Len(b.transactions) :
                          SameFields(Unwrap(one.value).transactions[i], b.transactions[i])

C26_VerificationsCommute ==
    /\ (IsSome(block) /\ Unwrap(block).vt = "Yet" /\ Unwrap(block).vb = "Yet") =>
           Commute(Unwrap(block))
    /\ (result.op = "verify_transactions" /\ result.ok
        /\ Unwrap(result.input).vb = "Verified") =>
           block = TransactionsThenBlock([Unwrap(result.input) EXCEPT !.vb = "Yet"],
                                         "accept").value

\* verify_block, then verify_transactions, have succeeded on a block of two
\* transactions with a nonce other than the one of its creation
C26_Witness ==
    /\ result.op = "verify_transactions"
    /\ result.ok
    /\ Unwrap(result.input).vb = "Verified"
    /\ Len(Unwrap(block).transactions) = 2
    /\ Unwrap(block).header.nonce # 0

(***************************************************************************)
(* C27: the canonical bytes of a transaction content (the method byte,     *)
(* then the record if present, then the target's height and signature if   *)
(* present) tell contents apart: two different contents, built by the      *)
(* constructors or read from JSON with or without a record and a target,   *)
(* never have the same bytes, and a transaction whose content differs from *)
(* the signed one never passes verify.                                     *)
(***************************************************************************)
C27_ContentEncodingInjective ==
    /\ (IsSome(signed) /\ IsSome(tx)
        /\ Unwrap(signed).content # Unwrap(tx).content) =>
           Content_append_bytes(Unwrap(signed).content)
           # Content_append_bytes(Unwrap(tx).content)
    /\ (txres.op = "verify" /\ txres.ok) =>
           Unwrap(tx).content = Unwrap(signed).content

====
